---- MODULE Spec2Model ----
(***************************************************************************)
(* Model of the task store of sqlite-todo (src/todo_db.py): the todos      *)
(* table kept by SQLite, and the operations setup, add_task, list_tasks,   *)
(* complete_task and delete_task of class TodoDB.                          *)
(*                                                                         *)
(* Text is a sequence of one-character strings, so that strip() and LIKE   *)
(* are computed character by character.  An Optional[...] argument is      *)
(* None (the empty tuple) or Some(v) (a one-element tuple).                *)
(***************************************************************************)
EXTENDS Integers, Sequences, FiniteSets, TLC

\* ---------------------------------------------------------------- bounds
\* The number of tasks ever added is at most MaxTasks in Spec and MaxListed in
\* SpecList; the clock stops at MaxClock.
MaxTasks == 2
MaxListed == 3
MaxClock == 1
\* Tasks ever added by the processes of SpecProc.
MaxShared == 1
\* Connections a process may have open and not yet finalized.
MaxOpen == 1

\* ------------------------------------------------------------- constants
STATUS_PENDING == "Pending"
STATUS_COMPLETED == "Completed"

None == <<>>
Some(v) == <<v>>

\* Python truthiness of an Optional argument: None is falsy, and so are the
\* status "", the query "" (the empty text) and the limit 0.
TruthyStatus(opt) == opt # None /\ opt[1] # ""
TruthyQuery(opt) == opt # None /\ opt[1] # <<>>
TruthyLimit(opt) == opt # None /\ opt[1] # 0

\* ------------------------------------------------------------------ text
Whitespace == {" "}

RECURSIVE lstrip(_)
lstrip(s) == IF s # <<>> /\ Head(s) \in Whitespace THEN lstrip(Tail(s)) ELSE s

RECURSIVE rstrip(_)
rstrip(s) ==
    IF s # <<>> /\ s[Len(s)] \in Whitespace
    THEN rstrip(SubSeq(s, 1, Len(s) - 1))
    ELSE s

\* Mutant: only the leading whitespace is removed.
strip_leading(s) == lstrip(s)

\* str.strip(): leading and trailing whitespace removed.
strip(s) == rstrip(lstrip(s))

\* ASCII case folding, as SQLite's LIKE does it.
Lower(c) ==
    CASE c = "A" -> "a"
      [] c = "B" -> "b"
      [] OTHER -> c

\* SQLite's LIKE: % matches any run of characters, _ any one character,
\* every other character matches itself without regard to ASCII case.
RECURSIVE Like(_, _)
Like(text, pattern) ==
    IF pattern = <<>> THEN text = <<>>
    ELSE IF Head(pattern) = "%"
         THEN \/ Like(text, Tail(pattern))
              \/ (text # <<>> /\ Like(Tail(text), pattern))
    ELSE IF text = <<>> THEN FALSE
    ELSE IF Head(pattern) = "_" THEN Like(Tail(text), Tail(pattern))
    ELSE Lower(Head(text)) = Lower(Head(pattern)) /\ Like(Tail(text), Tail(pattern))

\* ---------------------------------------------------------------- inputs
ContentInputs == { <<>>, <<" ">>, <<"a">>, <<" ", "A", "b", " ">> }

LimitInputs == {None, Some(-1), Some(0), Some(1), Some(2)}

StatusInputs ==
    {None, Some(""), Some(STATUS_PENDING), Some(STATUS_COMPLETED), Some("bogus")}

QueryInputs == {None, Some(<<>>), Some(<<"B">>), Some(<<"_">>)}

\* Ids given to complete_task and delete_task: those a row may have, and two
\* that no row has.
IdInputs == 0 .. MaxTasks + 1
ListedIds == 1 .. MaxListed

\* Where the storage engine may raise sqlite3.Error during one operation.
\* "connect": sqlite3.connect fails; "pragma": a PRAGMA of _connect fails;
\* "execute": the statement or its commit fails.
Faults == {"none", "connect", "pragma", "execute"}

\* The processes that share the file.
Procs == {1, 2}

\* ----------------------------------------------------------------- state
VARIABLES
    tableExists,   \* the todos table has been created in the backing file
    rows,          \* the todos table: id |-> [task, status, created_at, updated_at]
    seq,           \* sqlite_sequence: the largest id AUTOINCREMENT ever assigned
    now,           \* the store's clock, datetime('now')
    last,          \* the last call of a TodoDB method: its arguments, the
                   \* connections it opened, the exception it raised (err, msg),
                   \* the value it returned, the engine errors met and the log
    issued,        \* history: the ids add_task has returned so far
    procs,         \* two processes on the same file, each in a call of its own
                   \* TodoDB: where the call stands, its result, its connections
    lock,          \* the process holding the file's write lock, 0 when it is free
    cli            \* the present run of main: where it stands, its command, the
                   \* calls of setup and of a handler it made, what it printed
                   \* and its exit status

vars == <<tableExists, rows, seq, now, last, issued, procs, lock, cli>>

Call(op, args, connects, err, msg, ret, engine, log) ==
    [op |-> op, args |-> args, connects |-> connects, err |-> err, msg |-> msg,
     ret |-> ret, engine |-> engine, log |-> log]

LogRecord(level, msg) == [level |-> level, msg |-> msg]

\* A process that has called nothing yet. applicable and added are history:
\* whether the call's target row was there to change when the call was made,
\* and the ids this process's add_task calls have returned.
IdleProc ==
    [pc |-> "idle", op |-> "none", args |-> <<>>, applicable |-> FALSE,
     pending |-> None, ret |-> None, err |-> "none", open |-> 0, added |-> {}]

\* No run of main yet.
NoRun ==
    [pc |-> "start", cmd |-> "none", args |-> <<>>, setups |-> 0, handlers |-> 0,
     setupErr |-> "none", printed |-> <<>>, exit |-> None]

Init ==
    /\ tableExists = FALSE
    /\ rows = [i \in {} |-> None]
    /\ seq = 0
    /\ now = 0
    /\ last = Call("init", <<>>, 0, "none", <<>>, None, {}, <<>>)
    /\ issued = {}
    /\ procs = [p \in Procs |-> IdleProc]
    /\ lock = 0
    /\ cli = NoRun

\* The call raises sqlite3.Error: sqlite3.connect fails, the statement fails,
\* or the table the statement names does not exist. A failing PRAGMA is
\* caught inside _connect.
Raises(fault, needsTable) ==
    fault \in {"connect", "execute"} \/ (needsTable /\ ~tableExists)

\* The engine errors met during the call.
Engine(fault, needsTable) ==
    (IF fault = "none" THEN {} ELSE {fault})
    \cup (IF fault \in {"none", "pragma"} /\ needsTable /\ ~tableExists
          THEN {"no such table"} ELSE {})

\* Number of connections _connect opened: none when sqlite3.connect itself fails.
Connects(fault) == IF fault = "connect" THEN 0 ELSE 1

\* except sqlite3.Error as e: logger.debug("PRAGMA setup failed: %s", e)
PragmaLog(fault) ==
    IF fault = "pragma" THEN <<LogRecord("DEBUG", "PRAGMA setup failed")>> ELSE <<>>

\* except sqlite3.Error: logger.exception(...); raise
Failed(op, args, fault, needsTable, msg) ==
    Call(op, args, Connects(fault), "sqlite3.Error", <<>>, None,
         Engine(fault, needsTable), PragmaLog(fault) \o <<LogRecord("ERROR", msg)>>)

\* The call returns ret, after logging at the level given.
Returned(op, args, fault, ret, level, msg) ==
    Call(op, args, 1, "none", <<>>, ret, Engine(fault, FALSE),
         PragmaLog(fault) \o <<LogRecord(level, msg)>>)

\* raise ValueError(msg), before any connection
Invalid(op, args, msg) == Call(op, args, 0, "ValueError", msg, None, {}, <<>>)

\* ----------------------------------------------------------------- setup
\* Mutant: the table is created anew.
CreateTable == [i \in {} |-> None]

\* CREATE TABLE IF NOT EXISTS tasks (...): the rows of the table afterwards.
CreateTableIfNotExists == rows

setup(fault) ==
    /\ IF Raises(fault, FALSE)
       THEN /\ last' = Failed("setup", <<>>, fault, FALSE, "Failed to setup database.")
            /\ UNCHANGED <<tableExists, rows>>
       ELSE /\ tableExists' = TRUE
            /\ rows' = CreateTableIfNotExists
            /\ last' = Returned("setup", <<>>, fault, None, "DEBUG",
                                "Database schema ensured.")
    /\ UNCHANGED <<seq, now, issued>>

\* -------------------------------------------------------------- add_task
MaxOf(S) == CHOOSE m \in S : \A x \in S : x <= m

\* Mutant: one more than the largest id now in the table (no AUTOINCREMENT).
NextRowidOfTable == IF DOMAIN rows = {} THEN 1 ELSE MaxOf(DOMAIN rows) + 1

\* INTEGER PRIMARY KEY AUTOINCREMENT: one more than the largest id ever used.
NextRowid ==
    IF DOMAIN rows = {} THEN seq + 1 ELSE MaxOf(DOMAIN rows \cup {seq}) + 1

\* Mutant: only the empty text is refused.
IsEmpty(task_content) == task_content = <<>>

\* not task_content or not task_content.strip()
IsBlank(task_content) == task_content = <<>> \/ strip(task_content) = <<>>

\* INSERT INTO todos (task, status) VALUES (?, ?); created_at defaults to
\* datetime('now'), updated_at to NULL.
NewRow(content) ==
    [task |-> content, status |-> STATUS_PENDING, created_at |-> now,
     updated_at |-> None]

Insert(id, content) ==
    [i \in DOMAIN rows \cup {id} |-> IF i = id THEN NewRow(content) ELSE rows[i]]

add_task(task_content, fault) ==
    IF IsBlank(task_content)
    THEN /\ last' = Invalid("add", <<task_content>>, <<"Task content cannot be empty.">>)
         /\ UNCHANGED <<tableExists, rows, seq, now, issued>>
    ELSE IF Raises(fault, TRUE)
    THEN /\ last' = Failed("add", <<task_content>>, fault, TRUE, "Error inserting task.")
         /\ UNCHANGED <<tableExists, rows, seq, now, issued>>
    ELSE /\ rows' = Insert(NextRowid, strip(task_content))
         /\ seq' = NextRowid
         /\ last' = Returned("add", <<task_content>>, fault, NextRowid, "INFO",
                             "Added task id=%s")
         /\ issued' = issued \cup {NextRowid}
         /\ UNCHANGED <<tableExists, now>>

\* ------------------------------------------------------------ list_tasks
\* The WHERE clauses list_tasks collects, each with its bound parameter.
Clauses(status, query) ==
    (IF TruthyStatus(status)
     THEN <<[sql |-> "status = ?", param |-> status[1]]>>
     ELSE <<>>)
    \o
    (IF TruthyQuery(query)
     THEN <<[sql |-> "task LIKE ? COLLATE NOCASE",
             param |-> <<"%">> \o query[1] \o <<"%">>]>>
     ELSE <<>>)

Holds(clause, row) ==
    IF clause.sql = "status = ?"
    THEN row.status = clause.param
    ELSE Like(row.task, clause.param)

\* Mutant: the clauses are joined with OR.
WhereAny(clauses, row) ==
    clauses = <<>> \/ \E k \in 1 .. Len(clauses) : Holds(clauses[k], row)

\* " WHERE " + " AND ".join(clauses)
Where(clauses, row) == \A k \in 1 .. Len(clauses) : Holds(clauses[k], row)

MinOf(S) == CHOOSE m \in S : \A x \in S : m <= x

\* Mutant: ORDER BY id ASC.
RECURSIVE OrderByIdAsc(_)
OrderByIdAsc(ids) ==
    IF ids = {} THEN <<>>
    ELSE LET m == MinOf(ids) IN <<m>> \o OrderByIdAsc(ids \ {m})

\* ORDER BY id DESC
RECURSIVE OrderByIdDesc(_)
OrderByIdDesc(ids) ==
    IF ids = {} THEN <<>>
    ELSE LET m == MaxOf(ids) IN <<m>> \o OrderByIdDesc(ids \ {m})

\* Mutant: a negative LIMIT returns no row.
ApplyLimitNegativeAsZero(ordered, limit) ==
    IF TruthyLimit(limit) /\ limit[1] < Len(ordered)
    THEN SubSeq(ordered, 1, limit[1])
    ELSE ordered

\* LIMIT ? is appended when limit is truthy; SQLite reads a negative LIMIT as
\* no upper bound.
ApplyLimit(ordered, limit) ==
    IF TruthyLimit(limit) /\ limit[1] >= 0 /\ limit[1] < Len(ordered)
    THEN SubSeq(ordered, 1, limit[1])
    ELSE ordered

\* Task(id=row["id"], task=row["task"], status=row["status"],
\*      created_at=row["created_at"])
Task(id) ==
    [id |-> id, task |-> rows[id].task, status |-> rows[id].status,
     created_at |-> rows[id].created_at]

Select(limit, status, query) ==
    LET matching == {i \in DOMAIN rows : Where(Clauses(status, query), rows[i])}
        fetched == ApplyLimit(OrderByIdDesc(matching), limit)
    IN  [k \in 1 .. Len(fetched) |-> Task(fetched[k])]

\* if status: if status not in (STATUS_PENDING, STATUS_COMPLETED): raise
InvalidStatus(status) ==
    TruthyStatus(status) /\ status[1] \notin {STATUS_PENDING, STATUS_COMPLETED}

list_tasks(limit, status, query, fault) ==
    /\ IF InvalidStatus(status)
       THEN last' = Invalid("list", <<limit, status, query>>,
                            <<"Invalid status filter: ", status[1]>>)
       ELSE IF Raises(fault, TRUE)
       THEN last' = Failed("list", <<limit, status, query>>, fault, TRUE,
                           "Error reading tasks.")
       ELSE last' = Returned("list", <<limit, status, query>>, fault,
                             Select(limit, status, query), "DEBUG", "Fetched %d tasks")
    /\ UNCHANGED <<tableExists, rows, seq, now, issued>>

\* --------------------------------------------------------- complete_task
\* Mutant: WHERE id = ?, whatever the status.
UpdateTargetsAnyStatus(task_id) == {i \in DOMAIN rows : i = task_id}

\* Mutant: WHERE status != ?, whatever the id.
UpdateTargetsAnyId(task_id) ==
    {i \in DOMAIN rows : rows[i].status # STATUS_COMPLETED}

\* UPDATE todos ... WHERE id = ? AND status != ?
UpdateTargets(task_id) ==
    {i \in DOMAIN rows : i = task_id /\ rows[i].status # STATUS_COMPLETED}

\* Mutant: SET updated_at = datetime('now') only.
UpdateTimestampOnly(targets) ==
    [i \in DOMAIN rows |->
        IF i \in targets THEN [rows[i] EXCEPT !.updated_at = Some(now)] ELSE rows[i]]

\* SET status = ?, updated_at = datetime('now')
Update(targets) ==
    [i \in DOMAIN rows |->
        IF i \in targets
        THEN [rows[i] EXCEPT !.status = STATUS_COMPLETED, !.updated_at = Some(now)]
        ELSE rows[i]]

complete_task(task_id, fault) ==
    /\ IF Raises(fault, TRUE)
       THEN /\ last' = Failed("complete", <<task_id>>, fault, TRUE,
                              "Error completing task.")
            /\ UNCHANGED rows
       ELSE /\ rows' = Update(UpdateTargets(task_id))
            /\ last' = Returned("complete", <<task_id>>, fault,
                                Cardinality(UpdateTargets(task_id)) > 0, "INFO",
                                "Complete task %s changed=%s")
    /\ UNCHANGED <<tableExists, seq, now, issued>>

\* ----------------------------------------------------------- delete_task
\* Mutant: DELETE FROM todos, without the WHERE.
DeleteTargetsAll(task_id) == DOMAIN rows

\* DELETE FROM todos WHERE id = ?
DeleteTargets(task_id) == {i \in DOMAIN rows : i = task_id}

Delete(targets) == [i \in DOMAIN rows \ targets |-> rows[i]]

delete_task(task_id, fault) ==
    /\ IF Raises(fault, TRUE)
       THEN /\ last' = Failed("delete", <<task_id>>, fault, TRUE,
                              "Error deleting task.")
            /\ UNCHANGED rows
       ELSE /\ rows' = Delete(DeleteTargets(task_id))
            /\ last' = Returned("delete", <<task_id>>, fault,
                                Cardinality(DeleteTargets(task_id)) > 0, "INFO",
                                "Delete task %s deleted=%s")
    /\ UNCHANGED <<tableExists, seq, now, issued>>

\* -------------------------------------------------- processes on one file
\* Each process runs the methods of its own TodoDB step by step: the call,
\* _connect, the statement, the commit, the return. A statement that writes
\* takes the file's write lock and keeps it until its commit.
ProcContents == {<<" ">>, <<"a">>}
ProcIds == 1 .. MaxShared

ProcCalls ==
    {<<"setup", <<>>>>, <<"list", <<>>>>}
    \cup {<<"add", <<c>>>> : c \in ProcContents}
    \cup {<<"complete", <<i>>>> : i \in ProcIds}
    \cup {<<"delete", <<i>>>> : i \in ProcIds}

Writes(op) == op \in {"add", "complete", "delete"}

\* History: the row the call is to change is there when the call is made.
TargetReady(op, args) ==
    CASE op = "complete" ->
            args[1] \in DOMAIN rows /\ rows[args[1]].status = STATUS_PENDING
      [] op = "delete" -> args[1] \in DOMAIN rows
      [] OTHER -> FALSE

\* A method of the process's TodoDB is called.
ProcCall(p, op, args) ==
    /\ procs[p].pc = "idle"
    /\ procs[p].open < MaxOpen
    /\ op = "add" => seq < MaxShared
    /\ procs' = [procs EXCEPT ![p] =
          [@ EXCEPT !.pc = "called", !.op = op, !.args = args,
                    !.applicable = TargetReady(op, args),
                    !.pending = None, !.ret = None, !.err = "none"]]
    /\ UNCHANGED <<tableExists, rows, seq, now, last, issued, lock>>

\* add_task refuses blank content before it connects; otherwise the method
\* opens its connection.
ProcConnect(p) ==
    /\ procs[p].pc = "called"
    /\ IF procs[p].op = "add" /\ IsBlank(procs[p].args[1])
       THEN procs' = [procs EXCEPT ![p] = [@ EXCEPT !.pc = "done", !.err = "ValueError"]]
       ELSE procs' = [procs EXCEPT ![p] =
                         [@ EXCEPT !.pc = "connected", !.open = @ + 1]]
    /\ UNCHANGED <<tableExists, rows, seq, now, last, issued, lock>>

\* The table and the sequence as the statement of a writing call leaves them,
\* and the value the call will return.
Statement(op, args) ==
    CASE op = "add" ->
            [rows |-> Insert(NextRowid, strip(args[1])), seq |-> NextRowid,
             ret |-> NextRowid]
      [] op = "complete" ->
            [rows |-> Update(UpdateTargets(args[1])), seq |-> seq,
             ret |-> Cardinality(UpdateTargets(args[1])) > 0]
      [] op = "delete" ->
            [rows |-> Delete(DeleteTargets(args[1])), seq |-> seq,
             ret |-> Cardinality(DeleteTargets(args[1])) > 0]

\* conn.execute(...) of the method. A statement on a missing table fails; a
\* SELECT reads the committed rows; a writing statement waits for the write
\* lock (the step is not enabled while another process holds it).
ProcExecute(p) ==
    /\ procs[p].pc = "connected"
    /\ LET op == procs[p].op
           args == procs[p].args
       IN  IF op = "setup"
           THEN /\ ~tableExists => lock = 0
                /\ tableExists' = TRUE
                /\ rows' = CreateTableIfNotExists
                /\ procs' = [procs EXCEPT ![p] = [@ EXCEPT !.pc = "done"]]
                /\ UNCHANGED lock
           ELSE IF ~tableExists
           THEN /\ procs' = [procs EXCEPT ![p] =
                                [@ EXCEPT !.pc = "done", !.err = "sqlite3.Error"]]
                /\ UNCHANGED <<tableExists, rows, lock>>
           ELSE IF op = "list"
           THEN /\ procs' = [procs EXCEPT ![p] =
                                [@ EXCEPT !.pc = "done",
                                          !.ret = Select(None, None, None)]]
                /\ UNCHANGED <<tableExists, rows, lock>>
           ELSE /\ lock = 0
                /\ lock' = p
                /\ procs' = [procs EXCEPT ![p] =
                                [@ EXCEPT !.pc = "executed",
                                          !.pending = Some(Statement(op, args)),
                                          !.ret = Statement(op, args).ret]]
                /\ UNCHANGED <<tableExists, rows>>
    /\ UNCHANGED <<seq, now, last, issued>>

\* PRAGMA busy_timeout = 5000 runs out while another process holds the write
\* lock: the statement raises sqlite3.OperationalError (database is locked).
ProcBusy(p) ==
    /\ procs[p].pc = "connected"
    /\ Writes(procs[p].op) \/ (procs[p].op = "setup" /\ ~tableExists)
    /\ procs[p].op # "setup" => tableExists
    /\ lock \notin {0, p}
    /\ procs' = [procs EXCEPT ![p] = [@ EXCEPT !.pc = "done", !.err = "sqlite3.Error"]]
    /\ UNCHANGED <<tableExists, rows, seq, now, last, issued, lock>>

\* conn.commit() of add_task, or the commit on leaving the with block.
ProcCommit(p) ==
    /\ procs[p].pc = "executed"
    /\ rows' = procs[p].pending[1].rows
    /\ seq' = procs[p].pending[1].seq
    /\ lock' = 0
    /\ issued' = IF procs[p].op = "add" THEN issued \cup {procs[p].ret} ELSE issued
    /\ procs' = [procs EXCEPT ![p] =
          [@ EXCEPT !.pc = "done", !.pending = None,
                    !.added = IF procs[p].op = "add" THEN @ \cup {procs[p].ret} ELSE @]]
    /\ UNCHANGED <<tableExists, now, last>>

\* The method returns or raises. Leaving "with self._connect() as conn"
\* commits or rolls back; no method calls conn.close().
ProcReturn(p) ==
    /\ procs[p].pc = "done"
    /\ procs' = [procs EXCEPT ![p] = [@ EXCEPT !.pc = "idle"]]
    /\ UNCHANGED <<tableExists, rows, seq, now, last, issued, lock>>

\* The runtime finalizes a Connection object nothing refers to any more, which
\* closes it; when that happens is not the program's choice.
ProcFinalize(p) ==
    /\ procs[p].pc = "idle"
    /\ procs[p].open > 0
    /\ procs' = [procs EXCEPT ![p] = [@ EXCEPT !.open = @ - 1]]
    /\ UNCHANGED <<tableExists, rows, seq, now, last, issued, lock>>

\* ------------------------------------------------------------ command line
\* The command lines main parses: build_parser admits the four commands, and
\* for list only the two statuses as --status.
MainCommands ==
    {<<"add", <<c>>>> : c \in ProcContents}
    \cup {<<"list", <<None, s, None>>>> : s \in {None, Some(STATUS_PENDING)}}
    \cup {<<"complete", <<i>>>> : i \in 1 .. MaxTasks}
    \cup {<<"delete", <<i>>>> : i \in 1 .. MaxTasks}

\* args = parser.parse_args(argv); db = TodoDB(db_path=args.db): a run of main
\* begins, in a new process.
MainParse(cmd, args) ==
    /\ cli.pc \in {"start", "exited"}
    /\ cmd = "add" => seq < MaxTasks
    /\ cli' = [NoRun EXCEPT !.pc = "setup", !.cmd = cmd, !.args = args]
    /\ UNCHANGED <<tableExists, rows, seq, now, last, issued, procs, lock>>

\* Mutant: main does not notice that setup failed.
SetupFailedNever(call) == FALSE

\* try: db.setup() except Exception as e
SetupFailed(call) == call.err # "none"

\* db.setup(); when it raises, main prints and returns 2.
MainSetup(fault) ==
    /\ cli.pc = "setup"
    /\ setup(fault)
    /\ cli' = IF SetupFailed(last')
              THEN [cli EXCEPT !.pc = "exited", !.setups = @ + 1,
                               !.setupErr = last'.err,
                               !.printed = <<<<"[ERROR]", "Database setup failed">>>>,
                               !.exit = Some(2)]
              ELSE [cli EXCEPT !.pc = "command", !.setups = @ + 1,
                               !.setupErr = last'.err]
    /\ UNCHANGED <<procs, lock>>

\* The call of the store the handler of the command makes.
Handler(cmd, args, fault) ==
    CASE cmd = "add" -> add_task(args[1], fault)
      [] cmd = "list" -> list_tasks(args[1], args[2], args[3], fault)
      [] cmd = "complete" -> complete_task(args[1], fault)
      [] cmd = "delete" -> delete_task(args[1], fault)

\* One line of cmd_list's table.
Line(t) ==
    <<"ROW", IF t.status = STATUS_COMPLETED THEN "COMPLETED" ELSE "PENDING">>

\* What cmd_add, cmd_list, cmd_complete and cmd_delete print after the call.
Output(cmd, call) ==
    IF call.err # "none"
    THEN IF cmd = "list" /\ call.err = "ValueError"
         THEN <<<<"[ERROR]">> \o call.msg>>
         ELSE <<<<"[ERROR]", "Failed to", cmd>> \o call.msg>>
    ELSE CASE cmd = "add" -> <<<<"[SUCCESS]", "Task added">>>>
           [] cmd = "list" ->
                 IF call.ret = <<>>
                 THEN <<<<"[INFO]", "To-Do list is empty.">>>>
                 ELSE <<<<"ID", "STATUS", "CREATED_AT", "TASK">>>>
                         \o [k \in 1 .. Len(call.ret) |-> Line(call.ret[k])]
           [] cmd = "complete" ->
                 IF call.ret
                 THEN <<<<"[SUCCESS]", "marked as Completed.">>>>
                 ELSE <<<<"[ERROR]", "not found or already completed.">>>>
           [] cmd = "delete" ->
                 IF call.ret
                 THEN <<<<"[SUCCESS]", "deleted.">>>>
                 ELSE <<<<"[ERROR]", "not found.">>>>

\* args.func(db, args): the handler calls the store, catches what it raises
\* and prints; main returns 0.
MainCommand(fault) ==
    /\ cli.pc = "command"
    /\ Handler(cli.cmd, cli.args, fault)
    /\ cli' = [cli EXCEPT !.pc = "exited", !.handlers = @ + 1,
                          !.printed = Output(cli.cmd, last'),
                          !.exit = Some(0)]
    /\ UNCHANGED <<procs, lock>>

\* ------------------------------------------------------------------ clock
\* Time passes between calls.
Tick ==
    /\ now < MaxClock
    /\ now' = now + 1
    /\ UNCHANGED <<tableExists, rows, seq, last, issued>>

\* The life of the tasks: every call may meet a storage fault, time passes,
\* and the list is read as list_tasks().
Next ==
    \/ (\E f \in Faults : setup(f)) /\ UNCHANGED <<procs, lock, cli>>
    \/ (\E c \in ContentInputs, f \in Faults : seq < MaxTasks /\ add_task(c, f))
          /\ UNCHANGED <<procs, lock, cli>>
    \/ (\E f \in Faults : list_tasks(None, None, None, f)) /\ UNCHANGED <<procs, lock, cli>>
    \/ (\E i \in IdInputs, f \in Faults : complete_task(i, f)) /\ UNCHANGED <<procs, lock, cli>>
    \/ (\E i \in IdInputs, f \in Faults : delete_task(i, f)) /\ UNCHANGED <<procs, lock, cli>>
    \/ Tick /\ UNCHANGED <<procs, lock, cli>>

Spec == Init /\ [][Next]_vars

\* The queries: the table is filled and changed by calls that meet no fault,
\* and list_tasks is called with every combination of its arguments.
NextList ==
    \/ setup("none") /\ UNCHANGED <<procs, lock, cli>>
    \/ (\E c \in ContentInputs : seq < MaxListed /\ add_task(c, "none"))
          /\ UNCHANGED <<procs, lock, cli>>
    \/ (\E i \in ListedIds : complete_task(i, "none")) /\ UNCHANGED <<procs, lock, cli>>
    \/ (\E i \in ListedIds : delete_task(i, "none")) /\ UNCHANGED <<procs, lock, cli>>
    \/ (\E l \in LimitInputs, s \in StatusInputs, q \in QueryInputs :
          list_tasks(l, s, q, "none")) /\ UNCHANGED <<procs, lock, cli>>

SpecList == Init /\ [][NextList]_vars

\* Two processes work on the same file, their steps interleaved.
NextProc ==
    \/ (\E p \in Procs, c \in ProcCalls : ProcCall(p, c[1], c[2])) /\ UNCHANGED cli
    \/ (\E p \in Procs : ProcConnect(p)) /\ UNCHANGED cli
    \/ (\E p \in Procs : ProcExecute(p)) /\ UNCHANGED cli
    \/ (\E p \in Procs : ProcBusy(p)) /\ UNCHANGED cli
    \/ (\E p \in Procs : ProcCommit(p)) /\ UNCHANGED cli
    \/ (\E p \in Procs : ProcReturn(p)) /\ UNCHANGED cli
    \/ (\E p \in Procs : ProcFinalize(p)) /\ UNCHANGED cli

SpecProc == Init /\ [][NextProc]_vars

\* Runs of main, one after the other, each call of the store with a possible
\* storage fault.
NextMain ==
    \/ \E c \in MainCommands : MainParse(c[1], c[2])
    \/ \E f \in Faults : MainSetup(f)
    \/ \E f \in Faults : MainCommand(f)

SpecMain == Init /\ [][NextMain]_vars

\* ======================================================================
\* Properties
\* ======================================================================
\* Vocabulary of the properties, stated without the operators of the model.
AllWhitespace(s) == \A k \in 1 .. Len(s) : s[k] \in Whitespace

\* t is s without its leading and trailing whitespace.
IsTrimOf(t, s) ==
    /\ t # <<>>
    /\ Head(t) \notin Whitespace
    /\ t[Len(t)] \notin Whitespace
    /\ \E i, j \in 1 .. Len(s) :
          /\ t = SubSeq(s, i, j)
          /\ \A k \in 1 .. Len(s) : (k < i \/ k > j) => s[k] \in Whitespace

Positions(listed, P(_)) == {k \in 1 .. Len(listed) : P(listed[k])}

\* This step is a call of list_tasks(limit, status, query) that returned a list.
ListReturns(limit, status, query) ==
    /\ last'.op = "list"
    /\ last'.err = "none"
    /\ list_tasks(limit, status, query, "none")

\* This step is a call of list_tasks() that returned a list.
ListAllReturns == ListReturns(None, None, None)

\* The call before this step was add_task(s), s not blank, and it returned an id.
JustAdded == last.op = "add" /\ last.err = "none"

\* C1 (as stated): for every s that is not blank, add(s) succeeds and a following
\* list() contains exactly one task whose content is s trimmed, and that task
\* is Pending.
C1_ExactlyOneWithContent ==
    [][(JustAdded /\ ListAllReturns) =>
          LET HasContent(t) == IsTrimOf(t.task, last.args[1])
              hits == Positions(last'.ret, HasContent)
          IN  /\ Cardinality(hits) = 1
              /\ \A k \in hits : last'.ret[k].status = STATUS_PENDING]_vars

\* C1 (amended): add(s) with s not blank never fails validation, and when it
\* returns an id a following list() contains exactly one task with that id;
\* that task's content is s trimmed and its status is Pending.
C1_ExactlyOneWithReturnedId ==
    [][/\ (last'.op = "add" /\ ~AllWhitespace(last'.args[1])) => last'.err # "ValueError"
       /\ (JustAdded /\ ListAllReturns) =>
             LET HasId(t) == t.id = last.ret
                 hits == Positions(last'.ret, HasId)
             IN  /\ Cardinality(hits) = 1
                 /\ \A k \in hits :
                       /\ IsTrimOf(last'.ret[k].task, last.args[1])
                       /\ last'.ret[k].status = STATUS_PENDING]_vars

\* A list() that shows two Pending tasks with the trimmed content "Ab".
C1_Witness ==
    /\ last.op = "list" /\ last.err = "none"
    /\ Len(last.ret) = 2
    /\ \A k \in 1 .. 2 :
          last.ret[k].task = <<"A", "b">> /\ last.ret[k].status = STATUS_PENDING

\* C2: add(s) with s empty or all whitespace fails with ValueError before any
\* connection is opened, and leaves the stored rows as they were.
C2_BlankRejected ==
    [][(last'.op = "add" /\ AllWhitespace(last'.args[1])) =>
          /\ last'.err = "ValueError"
          /\ last'.connects = 0
          /\ rows' = rows
          /\ seq' = seq]_vars

\* add(" ") was refused while the table held a row.
C2_Witness ==
    /\ last.op = "add" /\ last.args[1] = <<" ">>
    /\ last.err = "ValueError" /\ last.connects = 0
    /\ DOMAIN rows # {}

\* C3: complete(id) returns true exactly when a row with that id exists and is
\* Pending, and then that row becomes Completed; otherwise it returns false,
\* raises nothing and changes no row; called twice in a row on a Pending task
\* it returns true, then false.
C3_CompleteIffPending ==
    [][(last'.op = "complete" /\ tableExists /\ complete_task(last'.args[1], "none")) =>
          LET id == last'.args[1]
              pending == id \in DOMAIN rows /\ rows[id].status = STATUS_PENDING
          IN  /\ last'.err = "none"
              /\ last'.ret = pending
              /\ DOMAIN rows' = DOMAIN rows
              /\ \A i \in DOMAIN rows : i # id \/ ~pending => rows'[i] = rows[i]
              /\ pending => rows'[id].status = STATUS_COMPLETED
              /\ (last.op = "complete" /\ last.err = "none" /\ last.args[1] = id
                    /\ last.ret) => ~last'.ret]_vars

\* complete(id) returned false on a row that exists and is Completed.
C3_Witness ==
    /\ last.op = "complete" /\ last.err = "none" /\ ~last.ret
    /\ last.args[1] \in DOMAIN rows
    /\ rows[last.args[1]].status = STATUS_COMPLETED

\* C4: a task starts Pending and its status only goes from Pending to
\* Completed; a Completed task that still exists stays Completed, and a
\* complete call on it leaves its status and updated_at as they were.
C4_StatusOneWay ==
    [][/\ \A i \in DOMAIN rows' \ DOMAIN rows : rows'[i].status = STATUS_PENDING
       /\ \A i \in DOMAIN rows' \cap DOMAIN rows :
             /\ rows[i].status = STATUS_COMPLETED =>
                   /\ rows'[i].status = STATUS_COMPLETED
                   /\ rows'[i].updated_at = rows[i].updated_at
             /\ rows'[i].status # rows[i].status =>
                   /\ rows[i].status = STATUS_PENDING
                   /\ rows'[i].status = STATUS_COMPLETED]_vars

\* complete(id) was called, later than its completion, on a Completed task.
C4_Witness ==
    /\ last.op = "complete" /\ last.err = "none" /\ ~last.ret
    /\ last.args[1] \in DOMAIN rows
    /\ rows[last.args[1]].updated_at = Some(0)
    /\ now > 0

\* The call before this step was a complete(id) that returned true.
JustCompleted == last.op = "complete" /\ last.err = "none" /\ last.ret

\* C5 (as stated): after complete(id) returned true on a Pending task, list()
\* shows the task Completed, with an updated_at that is not null.
C5_ListShowsUpdatedAt ==
    [][(JustCompleted /\ ListAllReturns) =>
          \E k \in 1 .. Len(last'.ret) :
             /\ last'.ret[k].id = last.args[1]
             /\ last'.ret[k].status = STATUS_COMPLETED
             /\ "updated_at" \in DOMAIN last'.ret[k]
             /\ last'.ret[k].updated_at # None]_vars

\* C5 (amended): complete(id) on a Pending task returns true, and a following
\* list() shows the task Completed; the stored row's updated_at is then not
\* null, but a listed task has only id, task, status and created_at.
C5_ListShowsCompleted ==
    [][/\ (last'.op = "complete" /\ tableExists
             /\ complete_task(last'.args[1], "none")
             /\ last'.args[1] \in DOMAIN rows
             /\ rows[last'.args[1]].status = STATUS_PENDING) => last'.ret
       /\ (JustCompleted /\ ListAllReturns) =>
             /\ rows[last.args[1]].updated_at # None
             /\ \E k \in 1 .. Len(last'.ret) :
                   /\ last'.ret[k].id = last.args[1]
                   /\ last'.ret[k].status = STATUS_COMPLETED
                   /\ DOMAIN last'.ret[k] = {"id", "task", "status", "created_at"}]_vars

\* A list() that shows a Completed task next to a Pending one.
C5_Witness ==
    /\ last.op = "list" /\ last.err = "none"
    /\ \E k \in 1 .. Len(last.ret) : last.ret[k].status = STATUS_COMPLETED
    /\ \E k \in 1 .. Len(last.ret) : last.ret[k].status = STATUS_PENDING

\* C6: delete(id) returns true exactly when a row with that id exists; then
\* that row and no other is removed; otherwise no row changes; called twice in
\* a row on an existing id it returns true, then false.
C6_DeleteIffExists ==
    [][(last'.op = "delete" /\ tableExists /\ delete_task(last'.args[1], "none")) =>
          LET id == last'.args[1]
              existed == id \in DOMAIN rows
          IN  /\ last'.err = "none"
              /\ last'.ret = existed
              /\ DOMAIN rows' = DOMAIN rows \ {id}
              /\ existed => Cardinality(DOMAIN rows') = Cardinality(DOMAIN rows) - 1
              /\ \A i \in DOMAIN rows' : rows'[i] = rows[i]
              /\ (last.op = "delete" /\ last.err = "none" /\ last.args[1] = id
                    /\ last.ret) => ~last'.ret]_vars

\* delete(id) returned true and left another row in the table.
C6_Witness ==
    /\ last.op = "delete" /\ last.err = "none" /\ last.ret
    /\ last.args[1] \notin DOMAIN rows
    /\ DOMAIN rows # {}

\* The last call was list_tasks and it returned a list. No row has changed
\* since: every call, whatever it does, replaces last.
ListReturned == last.op = "list" /\ last.err = "none"

Ids(listed) == {listed[k].id : k \in 1 .. Len(listed)}

\* C7: whatever its arguments, list returns the tasks by strictly descending
\* id; list() on a table that still holds every task added to it returns them
\* all, the last added first.
C7_DescendingById ==
    ListReturned =>
       /\ \A k \in 1 .. Len(last.ret) - 1 : last.ret[k].id > last.ret[k + 1].id
       /\ (last.args = <<None, None, None>> /\ DOMAIN rows = 1 .. seq) =>
             /\ Len(last.ret) = seq
             /\ \A k \in 1 .. seq :
                   /\ last.ret[k].id = seq + 1 - k
                   /\ last.ret[k].task = rows[seq + 1 - k].task

\* After adding "a", "Ab", "a" to the empty table, list() returned them as the
\* third, the second, the first.
C7_Witness ==
    /\ ListReturned /\ last.args = <<None, None, None>>
    /\ Len(last.ret) = 3
    /\ \A k \in 1 .. 3 : last.ret[k].id = 4 - k
    /\ last.ret[1].task = <<"a">>
    /\ last.ret[2].task = <<"A", "b">>
    /\ last.ret[3].task = <<"a">>

\* C8: list called with a status that is given and is neither "Pending" nor
\* "Completed" fails with a ValueError whose message contains the value, before
\* any connection is opened.
C8_OtherStatusRejected ==
    (last.op = "list" /\ last.args[2] # None
        /\ last.args[2][1] \notin {STATUS_PENDING, STATUS_COMPLETED}) =>
       /\ last.err = "ValueError"
       /\ last.connects = 0
       /\ \E k \in 1 .. Len(last.msg) : last.msg[k] = last.args[2][1]

\* text contains q as a substring, ASCII case ignored, every character taken
\* literally.
ContainsIgnoringCase(text, q) ==
    \E off \in 0 .. Len(text) - Len(q) :
       \A j \in 1 .. Len(q) : Lower(text[off + j]) = Lower(q[j])

\* C9: list(query=q) returns a stored task exactly when its content contains q
\* as a literal substring, case ignored.
C9_QueryIsLiteralSubstring ==
    (ListReturned /\ last.args[1] = None /\ last.args[2] = None
        /\ last.args[3] # None) =>
       \A i \in DOMAIN rows :
          i \in Ids(last.ret) <=> ContainsIgnoringCase(rows[i].task, last.args[3][1])

Min(a, b) == IF a <= b THEN a ELSE b

\* The rows that pass the filters of the last list call, stated without the
\* operators of the model: the status given, if any, is the row's; the query
\* given, if any, matches the row's content under LIKE.
PassesFilters(i) ==
    /\ (last.args[2] \notin {None, Some("")}) => rows[i].status = last.args[2][1]
    /\ (last.args[3] \notin {None, Some(<<>>)}) =>
          Like(rows[i].task, <<"%">> \o last.args[3][1] \o <<"%">>)

\* C10: list(limit=n) with n positive returns the min(n, number of matching
\* rows) rows of highest id among those that pass the filters; with limit
\* absent, zero or negative it returns every matching row.
C10_LimitCaps ==
    ListReturned =>
       LET limit == last.args[1]
           matching == {i \in DOMAIN rows : PassesFilters(i)}
           listed == Ids(last.ret)
       IN  /\ Cardinality(listed) = Len(last.ret)
           /\ listed \subseteq matching
           /\ \A i \in listed, j \in matching \ listed : i > j
           /\ IF limit # None /\ limit[1] > 0
              THEN Len(last.ret) = Min(limit[1], Cardinality(matching))
              ELSE listed = matching

\* list(limit=2) on a table of three rows returned the two of highest id.
C10_Witness ==
    /\ ListReturned
    /\ last.args = <<Some(2), None, None>>
    /\ DOMAIN rows = {1, 2, 3}
    /\ Ids(last.ret) = {2, 3}

\* The rows a list call with only this query returns from the present table.
MatchesQuery(i, query) == i \in Ids(Select(None, None, query))

\* C11: with a status filter and a query filter, list returns exactly the rows
\* that have the status and match the query; with only a status filter,
\* exactly the rows of that status; and an empty list, not an error, when no
\* row matches.
C11_FiltersConjoined ==
    (last.op = "list" /\ tableExists /\ last.args[1] = None
        /\ last.args[2] \in {Some(STATUS_PENDING), Some(STATUS_COMPLETED)}) =>
       /\ last.err = "none"
       /\ Cardinality(Ids(last.ret)) = Len(last.ret)
       /\ \A k \in 1 .. Len(last.ret) :
             last.ret[k].status = last.args[2][1] /\ last.ret[k].id \in DOMAIN rows
       /\ \A i \in DOMAIN rows :
             i \in Ids(last.ret) <=>
                /\ rows[i].status = last.args[2][1]
                /\ last.args[3] # None => MatchesQuery(i, last.args[3])

\* list(status="Pending", query="B") returned the Pending "Ab" and neither the
\* Completed "Ab" nor the Pending "a".
C11_Witness ==
    /\ ListReturned
    /\ last.args = <<None, Some(STATUS_PENDING), Some(<<"B">>)>>
    /\ Len(last.ret) = 1
    /\ \E i, j \in DOMAIN rows :
          /\ rows[i].task = <<"A", "b">> /\ rows[i].status = STATUS_COMPLETED
          /\ rows[j].task = <<"a">> /\ rows[j].status = STATUS_PENDING

\* C12: every id add returns is positive and greater than every id add
\* returned before, whether or not that task has since been deleted; no id is
\* assigned twice.
C12_IdsNeverReused ==
    [][(DOMAIN rows' \ DOMAIN rows) # {} =>
          /\ last'.op = "add" /\ last'.err = "none"
          /\ DOMAIN rows' = DOMAIN rows \cup {last'.ret}
          /\ last'.ret > 0
          /\ last'.ret \notin issued
          /\ \A i \in issued \cup DOMAIN rows : last'.ret > i]_vars

\* add returned 2 while the table was empty: task 1 had been deleted.
C12_Witness ==
    /\ last.op = "add" /\ last.err = "none" /\ last.ret = 2
    /\ DOMAIN rows = {2}
    /\ issued = {1, 2}

\* C14: every storage-engine error met during a call, a failing
\* PRAGMA of the connection included, is logged and raised to the caller as an
\* error that is not a ValueError, and the call returns no value.
C14_EveryEngineErrorRaised ==
    last.engine # {} =>
       /\ last.err = "sqlite3.Error"
       /\ last.log # <<>>
       /\ last.ret = None

\* A process's call has returned or raised.
Finished(p) == procs[p].pc \in {"done", "idle"} /\ procs[p].op # "none"

\* C13: a list call of either process returns exactly the committed rows of the
\* shared table, with their ids, contents and statuses, whichever process
\* wrote them; a setup call removes and alters no row and leaves an existing
\* table in place.
C13_SharedCommittedState ==
    [][\A p \in Procs :
          (procs[p].pc = "connected" /\ procs'[p].pc = "done"
              /\ procs'[p].err = "none") =>
             /\ procs[p].op = "list" =>
                   /\ Ids(procs'[p].ret) = DOMAIN rows
                   /\ Len(procs'[p].ret) = Cardinality(DOMAIN rows)
                   /\ \A k \in 1 .. Len(procs'[p].ret) :
                         LET t == procs'[p].ret[k]
                         IN  t.id \in DOMAIN rows /\ t.task = rows[t.id].task
                                /\ t.status = rows[t.id].status
                   /\ rows' = rows
             /\ procs[p].op = "setup" =>
                   rows' = rows /\ seq' = seq /\ tableExists']_vars

\* Process 2, which added nothing, lists the task process 1 added and completed.
C13_Witness ==
    /\ procs[2].op = "list" /\ procs[2].pc = "done" /\ procs[2].err = "none"
    /\ procs[2].added = {}
    /\ Len(procs[2].ret) = 1
    /\ procs[2].ret[1].id \in procs[1].added
    /\ procs[2].ret[1].status = STATUS_COMPLETED

\* C16: whenever a process is in no call, it holds no open connection.
C16_NoConnectionLeftOpen ==
    \A p \in Procs : procs[p].pc = "idle" => procs[p].open = 0

\* The two processes made the same changing call on the same row, which was
\* there to change when each of them called, and both calls are over.
Contended(p, q) ==
    /\ p # q
    /\ Finished(p) /\ Finished(q)
    /\ procs[p].op \in {"complete", "delete"}
    /\ procs[p].op = procs[q].op /\ procs[p].args = procs[q].args
    /\ procs[p].applicable /\ procs[q].applicable

ReturnedTrue(p) == procs[p].err = "none" /\ procs[p].ret = TRUE

\* C17: of two contending calls complete(id) or delete(id), at most one returns
\* true; exactly one does when neither raises; the other returns false; and
\* the row is then Completed, or gone, the change made once.
C17_OneWriterSucceeds ==
    \A p, q \in Procs :
       Contended(p, q) =>
          /\ ~(ReturnedTrue(p) /\ ReturnedTrue(q))
          /\ (procs[p].err = "none" /\ procs[q].err = "none") =>
                /\ ReturnedTrue(p) \/ ReturnedTrue(q)
                /\ ReturnedTrue(p) => procs[q].ret = FALSE
          /\ (ReturnedTrue(p) \/ ReturnedTrue(q)) =>
                IF procs[p].op = "complete"
                THEN /\ procs[p].args[1] \in DOMAIN rows
                     /\ rows[procs[p].args[1]].status = STATUS_COMPLETED
                ELSE procs[p].args[1] \notin DOMAIN rows

\* Both processes called complete(1) on the Pending task 1 before either had
\* executed; process 2 returned true and process 1 false.
C17_Witness ==
    /\ Contended(1, 2)
    /\ procs[1].op = "complete"
    /\ procs[1].err = "none" /\ procs[1].ret = FALSE
    /\ ReturnedTrue(2)

\* C15: a run of main calls setup once, before the handler; when setup fails,
\* main prints an error, exits with a status that is not 0 and runs no
\* handler; when setup succeeds, one handler runs, and what the store raises
\* there ends as a printed error and the exit status 0.
C15_SetupOnceBeforeCommand ==
    /\ cli.setups <= 1 /\ cli.handlers <= 1
    /\ cli.handlers = 1 => cli.setups = 1 /\ cli.setupErr = "none"
    /\ cli.pc \in {"command", "exited"} => cli.setups = 1
    /\ cli.pc = "exited" =>
          IF cli.setupErr # "none"
          THEN /\ cli.handlers = 0
               /\ cli.exit = Some(2)
               /\ Len(cli.printed) = 1 /\ cli.printed[1][1] = "[ERROR]"
               /\ last.op = "setup"
          ELSE /\ cli.handlers = 1
               /\ cli.exit = Some(0)
               /\ Len(cli.printed) > 0
               /\ last.op = cli.cmd
               /\ last.err # "none" =>
                     Len(cli.printed) = 1 /\ cli.printed[1][1] = "[ERROR]"

\* A run of "add" whose setup succeeded and whose INSERT failed: the handler
\* printed the error and main exited with 0.
C15_Witness ==
    /\ cli.pc = "exited" /\ cli.cmd = "add"
    /\ cli.setups = 1 /\ cli.handlers = 1
    /\ last.err = "sqlite3.Error"
    /\ cli.exit = Some(0)
====
